---- MODULE Spec2Model ----
(***************************************************************************)
(* Model of src/Code.js: the Google Apps Script web-app back end of the    *)
(* H.Saban application.  doPost parses a JSON body, routes on its action   *)
(* and answers with one JSON envelope; the handlers read a spreadsheet,    *)
(* the script properties and the OneSignal REST API.                       *)
(*                                                                         *)
(* JavaScript values are tuples of strings whose first element is the      *)
(* type: <<"undefined">>, <<"null">>, <<"string", c1, ..., cn>> (the       *)
(* characters of the text), <<"number", d1, ..., dn>> (its decimal         *)
(* digits), <<"Date", i>> (a Date object at instant i) and                 *)
(* <<"array", c1, ..., cn>> (an array holding the one string c1...cn).     *)
(* A text is the sequence of its characters; the words "undefined" and     *)
(* "null", the ISO-8601 texts of the instants and the literal texts of     *)
(* the source are single elements.                                         *)
(*                                                                         *)
(* The Hebrew sheet and column names of the source are transliterated:     *)
(*   Customers        the customers sheet            (Code.js line 74)     *)
(*   ContainerRentals the container rentals sheet    (line 82)             *)
(*   MaterialOrders   the building-material orders   (lines 86, 96)        *)
(*   ContainerOrders  the container orders sheet     (line 97)             *)
(*   custNo, phone    the customer number and phone columns (line 76)      *)
(*   receivedDate, orderDate   the two date columns  (line 100)            *)
(***************************************************************************)
EXTENDS Integers, Sequences, FiniteSets, TLC

\* Bounds of the model.
\* MaxRows: data rows in the sheets of one store, all sheets together.
MaxRows == 3
\* MaxCols: columns of a sheet in the row-normalisation stores.
MaxCols == 2
\* MaxNormRows: data rows of a sheet in the row-normalisation stores.
MaxNormRows == 2

VARIABLES
  sheets,     \* the spreadsheet: sheet name -> [exists, values]
  storeDown,  \* SpreadsheetApp.openById raises
  props,      \* the script properties: [appId, apiKey]
  propsDown,  \* PropertiesService.getScriptProperties raises
  provider,   \* how the notification provider answers a fetch
  request,    \* the body of the last POST: [kind, obj]
  response,   \* the envelope the last doPost/doGet returned
  escaped,    \* an exception left doPost
  reads,      \* the getSheetData calls of the last request, in order
  fetches     \* the UrlFetchApp.fetch calls of the last request, in order

vars == <<sheets, storeDown, props, propsDown, provider, request, response,
          escaped, reads, fetches>>

----------------------------------------------------------------------------
\* JavaScript values

Undefined == <<"undefined">>
Null == <<"null">>
Str(s) == <<"string">> \o s
Num(d) == <<"number">> \o d
DateV(i) == <<"Date", i>>
Arr(s) == <<"array">> \o s
TypeOf(v) == v[1]

\* The instants of the model and their ISO-8601 texts (Date.prototype.toISOString).
Instants == {"1", "2"}
IsoText(i) == IF i = "1" THEN "2024-01-01T00:00:00.000Z" ELSE "2024-01-02T00:00:00.000Z"
MsOf(i) == IF i = "1" THEN 1 ELSE 2
NaN == -1

\* String(v): the text of a value.
String(v) ==
  CASE TypeOf(v) = "undefined" -> <<"undefined">>
    [] TypeOf(v) = "null" -> <<"null">>
    [] TypeOf(v) = "Date" -> <<"Date.toString", v[2]>>
    [] OTHER -> Tail(v)

IsSpace(c) == c = " "

RECURSIVE TrimStart(_)
TrimStart(s) ==
  IF s # <<>> /\ IsSpace(Head(s)) THEN TrimStart(Tail(s)) ELSE s

RECURSIVE TrimEnd(_)
TrimEnd(s) ==
  IF s # <<>> /\ IsSpace(s[Len(s)]) THEN TrimEnd(SubSeq(s, 1, Len(s) - 1)) ELSE s

\* String.prototype.trim
Trim(s) == TrimEnd(TrimStart(s))

\* The truth value of v, as || and ! take it.
Truthy(v) ==
  CASE TypeOf(v) \in {"undefined", "null"} -> FALSE
    [] TypeOf(v) = "string" -> Len(v) > 1
    [] TypeOf(v) = "number" -> \E k \in 2..Len(v) : v[k] # "0"
    [] OTHER -> TRUE

\* a || b
OrElse(a, b) == IF Truthy(a) THEN a ELSE b

Digit(c) ==
  CASE c = "0" -> 0 [] c = "1" -> 1 [] c = "2" -> 2 [] c = "3" -> 3
    [] c = "4" -> 4 [] c = "5" -> 5 [] c = "6" -> 6 [] c = "7" -> 7
    [] c = "8" -> 8 [] OTHER -> 9

RECURSIVE NumberOf(_)
NumberOf(d) ==
  IF d = <<>> THEN 0 ELSE 10 * NumberOf(SubSeq(d, 1, Len(d) - 1)) + Digit(d[Len(d)])

\* new Date(v).getTime(): the time value new Date(v) holds, NaN for an
\* invalid date.  The texts of the model's date columns are ISO-8601 texts,
\* empty, or text no date parser reads.
TimeOf(v) ==
  CASE TypeOf(v) = "undefined" -> NaN
    [] TypeOf(v) = "null" -> 0
    [] TypeOf(v) = "number" -> NumberOf(Tail(v))
    [] TypeOf(v) = "Date" -> MsOf(v[2])
    [] TypeOf(v) = "string" ->
         IF Len(v) = 2 /\ \E i \in Instants : v[2] = IsoText(i)
         THEN MsOf(CHOOSE i \in Instants : v[2] = IsoText(i))
         ELSE NaN
    [] OTHER -> NaN

\* obj[key], undefined when obj has no such key.
Get(obj, key) == IF key \in DOMAIN obj THEN obj[key] ELSE Undefined

----------------------------------------------------------------------------
\* Sheets

CUSTOMERS == "Customers"
CONTAINER_RENTALS == "ContainerRentals"
MATERIAL_ORDERS == "MaterialOrders"
CONTAINER_ORDERS == "ContainerOrders"
SheetNames == {CUSTOMERS, CONTAINER_RENTALS, MATERIAL_ORDERS, CONTAINER_ORDERS}

custNo == <<"custNo">>
phone == <<"phone">>
receivedDate == <<"receivedDate">>
orderDate == <<"orderDate">>
orderType == <<"orderType">>

NoSheet == [exists |-> FALSE, values |-> <<>>]
Sheet(values) == [exists |-> TRUE, values |-> values]

getLastRow(sheet) == Len(sheet.values)
getLastColumn(sheet) == IF sheet.values = <<>> THEN 0 ELSE Len(sheet.values[1])

\* The last column whose header has the text of key: headers.forEach assigns
\* rowObject[header] column by column, so a later column overwrites.
LastIndexOf(headers, key) ==
  CHOOSE i \in 1..Len(headers) :
    /\ String(headers[i]) = key
    /\ \A j \in (i + 1)..Len(headers) : String(headers[j]) # key

\* Line 180 without the conversion of dates.
CellValueRaw(cell) == cell

\* row[index] instanceof Date ? row[index].toISOString() : row[index]
CellValue(cell) ==
  IF TypeOf(cell) = "Date" THEN Str(<<IsoText(cell[2])>>) ELSE cell

\* getSheetData (lines 173-184)
getSheetData(sheet) ==
  IF ~sheet.exists \/ getLastRow(sheet) < 2 THEN <<>>
  ELSE LET headers == SubSeq(sheet.values[1], 1, getLastColumn(sheet))
           keys == {String(headers[i]) : i \in 1..Len(headers)}
           data == SubSeq(sheet.values, 2, getLastRow(sheet))
       IN [n \in 1..Len(data) |->
            [k \in keys |-> CellValue(data[n][LastIndexOf(headers, k)])]]

----------------------------------------------------------------------------
\* Envelopes and handler results

SCRIPT_VERSION == <<"v1.3">>

\* JSON.stringify of a cell value or a text: a Date becomes its ISO text.
JsonValue(v) == CellValue(v)

\* JSON.stringify of a record: a field holding undefined is left out.
JsonRecord(r) ==
  [k \in {x \in DOMAIN r : r[x] # Undefined} |-> JsonValue(r[k])]

JsonRecords(rs) == [n \in 1..Len(rs) |-> JsonRecord(rs[n])]

\* createJsonResponse (lines 186-189): the text output, JSON.stringify(data)
\* with the JSON MIME type.  data is a record of the envelope's fields;
\* status and message are texts, the other fields records or lists of them.
createJsonResponse(data) ==
  [mimeType |-> "JSON",
   content |->
     [k \in DOMAIN data |->
        CASE k = "user" -> JsonRecord(data[k])
          [] k \in {"containers", "materialOrders", "orders"} -> JsonRecords(data[k])
          [] OTHER -> data[k]]]

NoResponse == [mimeType |-> "none", content |-> <<>>]

\* What running a handler gives: the value it returns or the exception it
\* raises, and the getSheetData and fetch calls it made.
Return(output, rd, fc) ==
  [threw |-> FALSE, output |-> output, error |-> <<>>, reads |-> rd, fetches |-> fc]
Throw(error, rd, fc) ==
  [threw |-> TRUE, output |-> NoResponse, error |-> error, reads |-> rd, fetches |-> fc]

Read(name) == [sheet |-> name, data |-> getSheetData(sheets[name])]

Min(S) == CHOOSE x \in S : \A y \in S : x <= y

\* SpreadsheetApp.openById raises when the spreadsheet cannot be opened.
OpenError == <<"Exception: Unexpected error while getting the method or property openById on object SpreadsheetApp.">>

----------------------------------------------------------------------------
\* handleGetClientData (lines 70-91)

\* The rows of data whose trimmed customer number is id (lines 84, 88).
FilterByCustomer(data, id) ==
  SelectSeq(data, LAMBDA row : Trim(String(Get(row, custNo))) = id)

\* The predicate of customersData.find (line 76).
MatchesCustomer(row, customerId) ==
  \/ Trim(String(Get(row, custNo))) = customerId
  \/ Trim(String(Get(row, phone))) = customerId

\* Line 81 without its trim.
ActualCustomerIdUntrimmed(user) == String(Get(user, custNo))

\* String(user[custNo]).trim() (line 81)
ActualCustomerId(user) == Trim(String(Get(user, custNo)))

\* The return of lines 78-80 moved below the reads of lines 82-87.
ClientNotFoundAfterReads(customersRead) ==
  Return(createJsonResponse([status |-> "error", message |-> <<"Client not found">>]),
         <<customersRead, Read(CONTAINER_RENTALS), Read(MATERIAL_ORDERS)>>, <<>>)

\* The return of lines 78-80, after the one read of the customers sheet.
ClientNotFound(customersRead) ==
  Return(createJsonResponse([status |-> "error", message |-> <<"Client not found">>]),
         <<customersRead>>, <<>>)

handleGetClientData(payload) ==
  IF storeDown THEN Throw(OpenError, <<>>, <<>>)
  ELSE
    LET customerId == Trim(String(Get(payload, "customerId")))
        customersRead == Read(CUSTOMERS)
        customersData == customersRead.data
        found == {n \in 1..Len(customersData) :
                    MatchesCustomer(customersData[n], customerId)}
    IN IF found = {} THEN ClientNotFound(customersRead)
       ELSE
         LET user == customersData[Min(found)]
             actualCustomerId == ActualCustomerId(user)
             containersRead == Read(CONTAINER_RENTALS)
             materialsRead == Read(MATERIAL_ORDERS)
         IN Return(createJsonResponse(
                     [status |-> "success",
                      user |-> user,
                      containers |-> FilterByCustomer(containersRead.data, actualCustomerId),
                      materialOrders |-> FilterByCustomer(materialsRead.data, actualCustomerId)]),
                   <<customersRead, containersRead, materialsRead>>, <<>>)

----------------------------------------------------------------------------
\* handleGetAllOrders (lines 93-102)

\* Lines 98 and 99 with the same orderType in both.
WithOrderTypeMaterials(order, type) ==
  [k \in DOMAIN order \cup {<<"orderType">>} |->
     IF k = <<"orderType">> THEN Str(<<"materials">>) ELSE order[k]]

\* { ...order, orderType: type } (lines 98, 99)
WithOrderType(order, type) ==
  [k \in DOMAIN order \cup {orderType} |->
     IF k = orderType THEN Str(<<type>>) ELSE order[k]]

TagAll(data, type) == [n \in 1..Len(data) |-> WithOrderType(data[n], type)]

\* new Date(o[receivedDate] || o[orderDate]) (line 100)
ResolvedTime(o) == TimeOf(OrElse(Get(o, receivedDate), Get(o, orderDate)))

\* The comparator of line 100, new Date(b..) - new Date(a..), as sort reads
\* it: a NaN result counts as +0.
CompareOrders(a, b) ==
  IF ResolvedTime(a) = NaN \/ ResolvedTime(b) = NaN THEN 0
  ELSE ResolvedTime(b) - ResolvedTime(a)

\* Array.prototype.sort, as the V8 runtime runs it (the object spread and
\* template literals of Code.js need that runtime): for fewer than 64
\* elements, TimSort finds the run the array starts with (reversing a
\* strictly descending one) and inserts the remaining elements one by one by
\* binary search.  With a consistent comparator this is the stable sort; with
\* the comparator of line 100 and an invalid date it is whatever these
\* comparisons leave.

\* CountAndMakeRun: the length of the run when it is known to reach idx - 1.
RECURSIVE RunEnd(_, _, _)
RunEnd(a, descending, idx) ==
  IF idx > Len(a) THEN idx - 1
  ELSE LET order == CompareOrders(a[idx], a[idx - 1])
       IN IF (descending /\ order >= 0) \/ (~descending /\ order < 0)
          THEN idx - 1
          ELSE RunEnd(a, descending, idx + 1)

\* The place of pivot among a[left .. right - 1].
RECURSIVE InsertionPoint(_, _, _, _)
InsertionPoint(a, pivot, left, right) ==
  IF left >= right THEN left
  ELSE LET mid == left + ((right - left) \div 2)
       IN IF CompareOrders(pivot, a[mid]) < 0
          THEN InsertionPoint(a, pivot, left, mid)
          ELSE InsertionPoint(a, pivot, mid + 1, right)

\* BinaryInsertionSort of a[start .. Len(a)] into the sorted a[1 .. start - 1].
RECURSIVE BinaryInsertionSort(_, _)
BinaryInsertionSort(a, start) ==
  IF start > Len(a) THEN a
  ELSE LET pivot == a[start]
           left == InsertionPoint(a, pivot, 1, start)
           moved == [i \in 1..Len(a) |->
                       IF i = left THEN pivot
                       ELSE IF i > left /\ i <= start THEN a[i - 1]
                       ELSE a[i]]
       IN BinaryInsertionSort(moved, start + 1)

SortOrders(a) ==
  IF Len(a) < 2 THEN a
  ELSE LET descending == CompareOrders(a[2], a[1]) < 0
           runLength == RunEnd(a, descending, 3)
           run == IF descending
                  THEN [i \in 1..Len(a) |-> IF i <= runLength THEN a[runLength + 1 - i] ELSE a[i]]
                  ELSE a
       IN BinaryInsertionSort(run, runLength + 1)

handleGetAllOrders ==
  IF storeDown THEN Throw(OpenError, <<>>, <<>>)
  ELSE
    LET materialsRead == Read(MATERIAL_ORDERS)
        containersRead == Read(CONTAINER_ORDERS)
        materialsOrders == TagAll(materialsRead.data, "materials")
        containerOrders == TagAll(containersRead.data, "container")
        allOrders == SortOrders(materialsOrders \o containerOrders)
    IN Return(createJsonResponse([status |-> "success", orders |-> allOrders]),
              <<materialsRead, containersRead>>, <<>>)

----------------------------------------------------------------------------
\* handleUpdateOrderStatus (lines 106-109)

\* The stub reading the sheet it would update.
handleUpdateOrderStatusReading(payload) ==
  Return(createJsonResponse(
           [status |-> "success",
            message |-> <<"Status updated successfully (simulation).">>]),
         <<Read(MATERIAL_ORDERS)>>, <<>>)

handleUpdateOrderStatus(payload) ==
  Return(createJsonResponse(
           [status |-> "success",
            message |-> <<"Status updated successfully (simulation).">>]),
         <<>>, <<>>)

----------------------------------------------------------------------------
\* handleSendNotification (lines 113-169)

HTTP_OK == Num(<<"2", "0", "0">>)

NullTypeError == <<"TypeError: Cannot read properties of null (reading 'recipients')">>
JsonSyntaxError == <<"SyntaxError: Unexpected token < in JSON at position 0">>

\* The bodies the provider answers with, and what JSON.parse and
\* .recipients give for each.
BodyNone == <<"{recipients:0}">>
BodyOne == <<"{recipients:1}">>
BodyThree == <<"{recipients:3}">>
BodyErrors == <<"{errors:[All included players are not subscribed]}">>
BodyNull == <<"null">>
BodyHtml == <<"<html>Bad Gateway</html>">>

\* JSON.parse(responseBody).recipients (lines 151, 152): the value, or the
\* exception raised on the way to it.
Recipients(responseBody) ==
  CASE responseBody = BodyNone -> [threw |-> FALSE, value |-> Num(<<"0">>), error |-> <<>>]
    [] responseBody = BodyOne -> [threw |-> FALSE, value |-> Num(<<"1">>), error |-> <<>>]
    [] responseBody = BodyThree -> [threw |-> FALSE, value |-> Num(<<"3">>), error |-> <<>>]
    [] responseBody = BodyErrors -> [threw |-> FALSE, value |-> Undefined, error |-> <<>>]
    [] responseBody = BodyNull -> [threw |-> TRUE, value |-> Undefined, error |-> NullTypeError]
    [] OTHER -> [threw |-> TRUE, value |-> Undefined, error |-> JsonSyntaxError]

\* v >= 0
NotNegative(v) == TypeOf(v) = "number" /\ NumberOf(Tail(v)) >= 0

\* v > 0
Positive(v) == TypeOf(v) = "number" /\ NumberOf(Tail(v)) > 0

FetchError == <<"Exception: Address unavailable: https://onesignal.com/api/v1/notifications">>
PropsError == <<"Exception: Unexpected error while getting the method or property getScriptProperties on object PropertiesService.">>

\* The call of line 143: the URL and the options of lines 127-139.
FetchCall(payload, appId, apiKey) ==
  [url |-> "https://onesignal.com/api/v1/notifications",
   method |-> "post",
   authorization |-> <<"Basic ">> \o String(apiKey),
   muteHttpExceptions |-> TRUE,
   app_id |-> appId,
   contents |-> Get(payload, "message"),
   headings |-> Get(payload, "title"),
   include_external_user_ids |-> String(Get(payload, "clientId"))]

\* Line 120 with && for ||.
CredentialsBothMissing(appId, apiKey) == ~Truthy(appId) /\ ~Truthy(apiKey)

\* !ONE_SIGNAL_APP_ID || !REST_API_KEY (line 120)
CredentialsMissing(appId, apiKey) == ~Truthy(appId) \/ ~Truthy(apiKey)

handleSendNotification(payload) ==
  IF propsDown THEN Throw(PropsError, <<>>, <<>>)
  ELSE
    LET ONE_SIGNAL_APP_ID == props.appId
        REST_API_KEY == props.apiKey
    IN IF CredentialsMissing(ONE_SIGNAL_APP_ID, REST_API_KEY)
       THEN Return(createJsonResponse(
                     [status |-> "error",
                      message |-> <<"OneSignal App ID or API Key not set in Script Properties.">>]),
                   <<>>, <<>>)
       ELSE
         LET call == FetchCall(payload, ONE_SIGNAL_APP_ID, REST_API_KEY)
             responseCode == provider.code
             responseBody == provider.body
             parsed == Recipients(responseBody)
             Failed(error) ==
               Return(createJsonResponse(
                        [status |-> "error",
                         message |-> <<"Failed to send notification due to a script error: ">>
                                       \o error]),
                      <<>>, <<call>>)
             Warning ==
               Return(createJsonResponse(
                        [status |-> "warning",
                         message |-> <<"Notification sent, but no recipients found for Client ID: ">>
                                       \o String(Get(payload, "clientId"))
                                       \o <<". Please verify the client has enabled notifications and is correctly identified in OneSignal.">>]),
                      <<>>, <<call>>)
             Success ==
               Return(createJsonResponse(
                        [status |-> "success",
                         message |-> <<"Notification sent successfully to ">>
                                       \o String(parsed.value) \o <<" recipient(s).">>]),
                      <<>>, <<call>>)
             Rejected ==
               Return(createJsonResponse(
                        [status |-> "error",
                         message |-> <<"Failed to send notification. OneSignal returned status ">>
                                       \o String(responseCode) \o <<". Details: ">>
                                       \o responseBody]),
                      <<>>, <<call>>)
         IN IF provider.fault THEN Failed(FetchError)
            ELSE IF responseCode # HTTP_OK THEN Rejected
            ELSE IF parsed.threw THEN Failed(parsed.error)
            ELSE IF Positive(parsed.value) THEN Success
            ELSE Warning

----------------------------------------------------------------------------
\* doPost (lines 9-34) and doGet (lines 40-42)

\* A request body: text that is not JSON, the JSON text null, a JSON number,
\* or a JSON object with the fields obj.
Body(kind, obj) == [kind |-> kind, obj |-> obj]
NoRequest == Body("none", <<>>)

SyntaxError == <<"SyntaxError: Unexpected token o in JSON at position 1">>
ActionTypeError == <<"TypeError: Cannot read properties of null (reading 'action')">>

ACTION_GET_CLIENT_DATA == Str(<<"getClientData">>)
ACTION_GET_ADMIN_DASHBOARD_DATA == Str(<<"getAdminDashboardData">>)
ACTION_GET_ALL_ORDERS == Str(<<"getAllOrders">>)
ACTION_UPDATE_ORDER_STATUS == Str(<<"updateOrderStatus">>)
ACTION_SEND_NOTIFICATION == Str(<<"sendNotificationToClient">>)

\* The default case without the action in its message.
UnknownActionUnnamed(action) ==
  Return(createJsonResponse([status |-> "error", message |-> <<"Unknown action">>]),
         <<>>, <<>>)

\* The default case of the switch (lines 26-28).
UnknownAction(action) ==
  Return(createJsonResponse(
           [status |-> "error", message |-> <<"Unknown action: ">> \o String(action)]),
         <<>>, <<>>)

\* The body of the try block (lines 12-29).
Route(body) ==
  CASE body.kind = "malformed" -> Throw(SyntaxError, <<>>, <<>>)
    [] body.kind = "null" -> Throw(ActionTypeError, <<>>, <<>>)
    [] OTHER ->
       LET payload == body.obj
           action == Get(payload, "action")
       IN CASE action = ACTION_GET_CLIENT_DATA -> handleGetClientData(payload)
            [] action \in {ACTION_GET_ADMIN_DASHBOARD_DATA, ACTION_GET_ALL_ORDERS} ->
                 handleGetAllOrders
            [] action = ACTION_UPDATE_ORDER_STATUS -> handleUpdateOrderStatus(payload)
            [] action = ACTION_SEND_NOTIFICATION -> handleSendNotification(payload)
            [] OTHER -> UnknownAction(action)

\* The catch block (lines 30-33).
Caught(r) ==
  IF r.threw
  THEN Return(createJsonResponse(
                [status |-> "error",
                 message |-> <<"Invalid request or server error: ">> \o r.error]),
              r.reads, r.fetches)
  ELSE r

\* doPost without its try and catch.
doPostUncaught(body) == Route(body)

\* What doPost(e) gives for the body e.postData.contents.
doPostResult(body) == Caught(Route(body))

----------------------------------------------------------------------------
\* The stores, configurations and requests of the model

CustomerHeader == <<Str(custNo), Str(phone)>>
CustomerRows ==
  {<<c, p>> : c \in {Num(<<"1">>), Str(<<" ", "2">>)},
              p \in {Str(<<"2", " ">>), Str(<<"9">>)}}

RentalHeader == <<Str(custNo)>>
RentalRows == {<<Str(<<"1", " ">>)>>, <<Num(<<"2">>)>>, <<Str(<<"9">>)>>}

MaterialHeader == <<Str(custNo), Str(receivedDate), Str(orderDate)>>
MaterialRows ==
  {<<Str(<<"1">>), Str(<<>>), Str(<<>>)>>,
   <<Str(<<"2">>), DateV("2"), DateV("1")>>,
   <<Num(<<"1">>), Str(<<>>), DateV("1")>>,
   <<Str(<<"2", " ">>), Str(<<"n/a">>), DateV("2")>>}

\* The container orders sheet of the model has no received-date column.
ContainerOrderHeader == <<Str(orderDate)>>
ContainerOrderRows == {<<DateV("1")>>, <<DateV("2")>>, <<Str(<<>>)>>}

Table(header, rows) == Sheet(<<header>> \o rows)

NoSheets == [n \in SheetNames |-> NoSheet]

\* Stores for the client lookup: at most MaxRows data rows in all.
ClientStores ==
  UNION {UNION {UNION {
    {[NoSheets EXCEPT ![CUSTOMERS] = Table(CustomerHeader, c),
                      ![CONTAINER_RENTALS] = Table(RentalHeader, r),
                      ![MATERIAL_ORDERS] = Table(MaterialHeader, m)] :
       c \in [1..i -> CustomerRows], r \in [1..j -> RentalRows],
       m \in [1..k -> MaterialRows]} :
    k \in 0..(MaxRows - i - j)} : j \in 0..(MaxRows - i)} : i \in 0..MaxRows}

\* Stores for the all-orders feed: at most MaxRows orders in all.
OrderStores ==
  UNION {UNION {
    {[NoSheets EXCEPT ![MATERIAL_ORDERS] = Table(MaterialHeader, m),
                      ![CONTAINER_ORDERS] = Table(ContainerOrderHeader, c)] :
       m \in [1..i -> MaterialRows], c \in [1..j -> ContainerOrderRows]} :
    j \in 0..(MaxRows - i)} : i \in 0..MaxRows}

\* Stores for the row normalisation: the customers sheet is missing, empty,
\* or holds up to MaxCols columns (headers may repeat) and up to MaxNormRows
\* data rows of texts and dates.
NormStores ==
  {[NoSheets EXCEPT ![CUSTOMERS] = g] : g \in
     {NoSheet, Sheet(<<>>)} \cup
     UNION {UNION {
       {Table(h, d) : h \in [1..w -> {Str(custNo), Str(phone)}],
                      d \in [1..n -> [1..w -> {Str(<<"9">>), DateV("1")}]]} :
       n \in 0..MaxNormRows} : w \in 1..MaxCols}}

Credentials == {Null, Str(<<>>), Str(<<"k">>)}
SetProps == [appId |-> Str(<<"app">>), apiKey |-> Str(<<"key">>)]

Answer(fault, code, body) == [fault |-> fault, code |-> code, body |-> body]
Delivered == Answer(FALSE, HTTP_OK, BodyOne)
Answers ==
  {Answer(TRUE, HTTP_OK, BodyNull)} \cup
  {Answer(FALSE, HTTP_OK, b) :
     b \in {BodyNone, BodyOne, BodyThree, BodyErrors, BodyNull, BodyHtml}} \cup
  {Answer(FALSE, Num(<<"5", "0", "0">>), BodyHtml),
   Answer(FALSE, Num(<<"4", "0", "0">>), BodyErrors)}

\* The request bodies.
UnknownActions ==
  {Str(<<"getclientdata">>), Str(<<"getAllOrders", " ">>), Str(<<"deleteOrder">>),
   Null, Arr(<<"getClientData">>)}
CustomerIds == {Str(<<"1">>), Str(<<" ", "2", " ">>), Num(<<"9">>), Str(<<"5">>)}
Bodies ==
  {Body("malformed", <<>>), Body("null", <<>>), Body("number", <<>>),
   Body("object", <<>>)} \cup
  {Body("object", [action |-> a]) :
     a \in UnknownActions \cup {ACTION_GET_CLIENT_DATA, ACTION_GET_ADMIN_DASHBOARD_DATA,
                                ACTION_GET_ALL_ORDERS, ACTION_UPDATE_ORDER_STATUS,
                                ACTION_SEND_NOTIFICATION}} \cup
  {Body("object", [action |-> ACTION_GET_CLIENT_DATA, customerId |-> c]) :
     c \in CustomerIds} \cup
  {Body("object", [action |-> ACTION_UPDATE_ORDER_STATUS, orderId |-> Str(<<"1">>),
                   status |-> Str(<<"done">>)]),
   Body("object", [action |-> ACTION_SEND_NOTIFICATION, clientId |-> Str(<<"7">>),
                   title |-> Str(<<"t">>), message |-> Str(<<"m">>)])}

----------------------------------------------------------------------------
\* The state machine

Init ==
  /\ \/ /\ sheets \in ClientStores \cup OrderStores \cup NormStores
        /\ storeDown = FALSE
        /\ props = SetProps
        /\ propsDown = FALSE
        /\ provider = Delivered
     \/ /\ sheets = NoSheets
        /\ storeDown \in BOOLEAN
        /\ props \in [appId : Credentials, apiKey : Credentials]
        /\ propsDown \in BOOLEAN
        /\ provider \in Answers
  /\ request = NoRequest
  /\ response = NoResponse
  /\ escaped = FALSE
  /\ reads = <<>>
  /\ fetches = <<>>

\* An execution of the script serves one request: every doPost and doGet
\* runs in an execution of its own, and Code.js keeps nothing between them.
Idle == request = NoRequest

\* One POST request, handled to completion.
doPost ==
  /\ Idle
  /\ \E body \in Bodies :
       LET r == doPostResult(body)
       IN
         /\ request' = body
         /\ response' = r.output
         /\ escaped' = r.threw
         /\ reads' = r.reads
         /\ fetches' = r.fetches
  /\ UNCHANGED <<sheets, storeDown, props, propsDown, provider>>

\* One GET request: the liveness text.
doGet ==
  /\ Idle
  /\ request' = Body("get", <<>>)
  /\ response' = [mimeType |-> "TEXT",
                  content |-> <<"Google Apps Script for H.Saban App is running. Version: ">>
                                \o SCRIPT_VERSION]
  /\ escaped' = FALSE
  /\ reads' = <<>>
  /\ fetches' = <<>>
  /\ UNCHANGED <<sheets, storeDown, props, propsDown, provider>>

Next == doPost \/ doGet

Spec == Init /\ [][Next]_vars

----------------------------------------------------------------------------
\* Properties

Posted == request.kind \in {"malformed", "null", "number", "object"}
Action == Get(request.obj, "action")
IsEnvelope == response.mimeType = "JSON"
Envelope == response.content
Handled(action) == request.kind = "object" /\ Action = action

KnownActions ==
  {ACTION_GET_CLIENT_DATA, ACTION_GET_ADMIN_DASHBOARD_DATA, ACTION_GET_ALL_ORDERS,
   ACTION_UPDATE_ORDER_STATUS, ACTION_SEND_NOTIFICATION}

EndsWith(text, end) ==
  /\ Len(text) >= Len(end)
  /\ SubSeq(text, Len(text) - Len(end) + 1, Len(text)) = end

Contains(text, part) ==
  \E i \in 1..Len(text) :
    i + Len(part) - 1 <= Len(text) /\ SubSeq(text, i, i + Len(part) - 1) = part

\* The exception raised while a request is handled, <<>> when none is: the
\* body is not JSON, the spreadsheet cannot be opened, or the script
\* properties cannot be read.
Raised ==
  IF request.kind = "malformed" THEN SyntaxError
  ELSE IF /\ request.kind = "object" /\ storeDown
          /\ Action \in {ACTION_GET_CLIENT_DATA, ACTION_GET_ADMIN_DASHBOARD_DATA,
                         ACTION_GET_ALL_ORDERS}
       THEN OpenError
  ELSE IF Handled(ACTION_SEND_NOTIFICATION) /\ propsDown THEN PropsError
  ELSE <<>>

\* C1: every POST is answered with one envelope whose status is success,
\* error or warning, and no exception leaves doPost; when the body is not
\* JSON or a handler raises, the envelope is an error whose message ends
\* with the exception's description.
C1_EveryPostIsAnswered ==
  Posted =>
    /\ ~escaped
    /\ IsEnvelope
    /\ "status" \in DOMAIN Envelope
    /\ Envelope.status \in {"success", "error", "warning"}
    /\ Raised # <<>> =>
         /\ Envelope.status = "error"
         /\ DOMAIN Envelope = {"status", "message"}
         /\ EndsWith(Envelope.message, Raised)

\* C1 witness: the spreadsheet cannot be opened while the all-orders feed
\* is asked for, and the answer is an error envelope.
C1_Witness ==
  /\ Handled(ACTION_GET_ALL_ORDERS)
  /\ storeDown
  /\ IsEnvelope
  /\ Envelope.status = "error"

UnknownActionAnswer(kinds) ==
  (request.kind \in kinds /\ Action \notin KnownActions) =>
    /\ IsEnvelope
    /\ Envelope =
         [status |-> "error",
          message |-> <<"Unknown action: ">> \o
                        (IF TypeOf(Action) = "string" THEN Tail(Action) ELSE String(Action))]
    /\ reads = <<>>
    /\ fetches = <<>>

Field(row, key) == Trim(String(Get(row, key)))

\* The customers records, the trimmed identifier of the request and the
\* records the identifier matches.
Customers == getSheetData(sheets[CUSTOMERS])
Identifier == Trim(String(Get(request.obj, "customerId")))
Matching ==
  {n \in 1..Len(Customers) :
     Field(Customers[n], custNo) = Identifier \/ Field(Customers[n], phone) = Identifier}

LookedUp == Handled(ACTION_GET_CLIENT_DATA) /\ ~storeDown

\* The rows of a sheet whose trimmed customer number is id, in sheet order.
RowsOf(name, id) ==
  SelectSeq(getSheetData(sheets[name]), LAMBDA row : Field(row, custNo) = id)

\* C3: when a customers record matches the trimmed identifier by customer
\* number or by phone, the answer is a success envelope whose user is the
\* first such record and whose containers and materialOrders are the rows
\* of the rentals and material-orders sheets whose trimmed customer number
\* is the trimmed customer number of that record.
C3_FirstMatchAndItsRows ==
  (LookedUp /\ Matching # {}) =>
    LET first == Customers[Min(Matching)]
    IN /\ IsEnvelope
       /\ DOMAIN Envelope = {"status", "user", "containers", "materialOrders"}
       /\ Envelope.status = "success"
       /\ Envelope.user = first
       /\ Envelope.containers = RowsOf(CONTAINER_RENTALS, Field(first, custNo))
       /\ Envelope.materialOrders = RowsOf(MATERIAL_ORDERS, Field(first, custNo))

\* C3 witness: two records match, the first one by its phone, its customer
\* number is not the identifier, and it has a rented container.
C3_Witness ==
  /\ LookedUp
  /\ Cardinality(Matching) = 2
  /\ Field(Customers[Min(Matching)], custNo) # Identifier
  /\ IsEnvelope
  /\ Envelope.status = "success"
  /\ Len(Envelope.containers) > 0

\* C4: when no customers record matches (the sheet may be missing, empty or
\* hold only its header), the answer is exactly {status: error, message:
\* "Client not found"} and neither the rentals nor the material-orders sheet
\* is read.
C4_ClientNotFound ==
  (LookedUp /\ Matching = {}) =>
    /\ IsEnvelope
    /\ Envelope = [status |-> "error", message |-> <<"Client not found">>]
    /\ \A i \in 1..Len(reads) : reads[i].sheet = CUSTOMERS
    /\ fetches = <<>>

\* C4 witness: the customers sheet has records, none matches.
C4_Witness ==
  /\ LookedUp
  /\ Len(Customers) > 0
  /\ Matching = {}
  /\ IsEnvelope
  /\ Envelope.status = "error"
  /\ Len(reads) = 1

\* A credential that is not set: no such property, or an empty one.
Absent(credential) == credential = Null \/ credential = Str(<<>>)

Notified == Handled(ACTION_SEND_NOTIFICATION) /\ ~propsDown

\* C5: with a credential absent the notification handler answers an error
\* envelope and calls the provider not at all; with both present it calls
\* the provider exactly once, whatever the provider answers.
C5_OneCallOrNone ==
  Notified =>
    IF Absent(props.appId) \/ Absent(props.apiKey)
    THEN IsEnvelope /\ Envelope.status = "error" /\ fetches = <<>>
    ELSE Len(fetches) = 1

\* C5 witness: both credentials are set, the call fails in transport, and
\* it was made once.
C5_Witness ==
  /\ Notified
  /\ ~Absent(props.appId)
  /\ ~Absent(props.apiKey)
  /\ provider.fault
  /\ Len(fetches) = 1

\* C6: with both credentials present the provider's answer decides the
\* status: 200 with a positive recipient count is success with the count in
\* the message, 200 with a count of 0 is warning, another status is error
\* with the status code and the body in the message, and an exception in
\* the call or in reading the answer is error with its description.
C6_AnswerDecidesStatus ==
  (Notified /\ ~Absent(props.appId) /\ ~Absent(props.apiKey)) =>
    /\ IsEnvelope
    /\ DOMAIN Envelope = {"status", "message"}
    /\ provider.fault =>
         Envelope.status = "error" /\ EndsWith(Envelope.message, FetchError)
    /\ (~provider.fault /\ provider.code # HTTP_OK) =>
         /\ Envelope.status = "error"
         /\ Contains(Envelope.message, Tail(provider.code))
         /\ Contains(Envelope.message, provider.body)
    /\ (~provider.fault /\ provider.code = HTTP_OK) =>
         /\ provider.body = BodyOne =>
              Envelope.status = "success" /\ Contains(Envelope.message, <<"1">>)
         /\ provider.body = BodyThree =>
              Envelope.status = "success" /\ Contains(Envelope.message, <<"3">>)
         /\ provider.body = BodyNone => Envelope.status = "warning"
         /\ provider.body = BodyNull =>
              Envelope.status = "error" /\ EndsWith(Envelope.message, NullTypeError)
         /\ provider.body = BodyHtml =>
              Envelope.status = "error" /\ EndsWith(Envelope.message, JsonSyntaxError)

\* C6 witness: the provider accepts the notification for no recipient.
C6_Witness ==
  /\ Notified
  /\ ~provider.fault
  /\ provider.code = HTTP_OK
  /\ provider.body = BodyNone
  /\ IsEnvelope
  /\ Envelope.status = "warning"

FeedAsked ==
  /\ request.kind = "object"
  /\ Action \in {ACTION_GET_ADMIN_DASHBOARD_DATA, ACTION_GET_ALL_ORDERS}
  /\ ~storeDown

\* The resolved timestamp of an order: that of its received date when it has
\* one, and otherwise of its order date; NaN when it is no date.
Present(v) == v # Undefined /\ v # Str(<<>>)
Resolved(o) ==
  TimeOf(IF Present(Get(o, receivedDate)) THEN Get(o, receivedDate) ELSE Get(o, orderDate))

\* C7: the orders of the feed are in non-increasing order of resolved
\* timestamp, whatever the two sheets hold, orders without a date included:
\* no order comes before one with a later timestamp.
C7_NewestFirst ==
  (FeedAsked /\ IsEnvelope) =>
    \A i, j \in 1..Len(Envelope.orders) :
      (i < j /\ Resolved(Envelope.orders[i]) # NaN /\ Resolved(Envelope.orders[j]) # NaN)
        => Resolved(Envelope.orders[i]) >= Resolved(Envelope.orders[j])

\* The orders the feed is to hold: every record of the material-orders sheet
\* with orderType materials, then every record of the container-orders sheet
\* with orderType container, nothing else changed.
Tagged(record, type) ==
  [k \in DOMAIN record \cup {orderType} |->
     IF k = orderType THEN <<"string", type>> ELSE record[k]]
Expected ==
  LET m == getSheetData(sheets[MATERIAL_ORDERS])
      c == getSheetData(sheets[CONTAINER_ORDERS])
  IN [n \in 1..(Len(m) + Len(c)) |->
        IF n <= Len(m) THEN Tagged(m[n], "materials") ELSE Tagged(c[n - Len(m)], "container")]

\* C8: for getAdminDashboardData and getAllOrders alike, the feed holds as
\* many orders as the two sheets hold records, and they are the records of
\* the sheets, each with its orderType and otherwise unchanged.
C8_FeedHoldsEveryOrder ==
  FeedAsked =>
    /\ IsEnvelope
    /\ DOMAIN Envelope = {"status", "orders"}
    /\ Envelope.status = "success"
    /\ Len(Envelope.orders) = Len(Expected)
    /\ \E p \in Permutations(1..Len(Expected)) :
         \A n \in 1..Len(Expected) : Envelope.orders[n] = Expected[p[n]]

\* C8 witness: the dashboard is asked for a feed of orders of both kinds.
C8_Witness ==
  /\ FeedAsked
  /\ Action = ACTION_GET_ADMIN_DASHBOARD_DATA
  /\ IsEnvelope
  /\ Len(Envelope.orders) = 3
  /\ \E n \in 1..3 : Envelope.orders[n][orderType] = Str(<<"materials">>)
  /\ \E n \in 1..3 : Envelope.orders[n][orderType] = Str(<<"container">>)

\* C9: updateOrderStatus answers a success envelope for every payload, reads
\* no sheet, calls no provider and leaves the spreadsheet and the script
\* properties as they were.
C9_UpdateIsAStub ==
  [][(request'.kind = "object" /\ Get(request'.obj, "action") = ACTION_UPDATE_ORDER_STATUS)
       => /\ response'.mimeType = "JSON"
          /\ DOMAIN response'.content = {"status", "message"}
          /\ response'.content.status = "success"
          /\ reads' = <<>>
          /\ fetches' = <<>>
          /\ sheets' = sheets
          /\ props' = props]_vars

\* C9 witness: an update with an order id and a status, while the
\* spreadsheet cannot be opened.
C9_Witness ==
  /\ Handled(ACTION_UPDATE_ORDER_STATUS)
  /\ "orderId" \in DOMAIN request.obj
  /\ storeDown
  /\ IsEnvelope
  /\ Envelope.status = "success"

\* What getSheetData is to give for a sheet.
Normalised(sheet, data) ==
  IF ~sheet.exists \/ Len(sheet.values) < 2 THEN data = <<>>
  ELSE LET header == sheet.values[1]
       IN /\ Len(data) = Len(sheet.values) - 1
          /\ \A n \in 1..Len(data) :
               /\ DOMAIN data[n] = {String(header[i]) : i \in 1..Len(header)}
               /\ \A i \in 1..Len(header) :
                    (\A j \in (i + 1)..Len(header) : String(header[j]) # String(header[i]))
                      => LET cell == sheet.values[n + 1][i]
                         IN data[n][String(header[i])] =
                              IF cell[1] = "Date" THEN <<"string", IsoText(cell[2])>> ELSE cell

\* C10: every getSheetData call gives no record for a sheet that is missing,
\* empty or only a header, and otherwise one record for each data row, in
\* row order, all with the header row's keys, each cell unchanged but for a
\* date, which is its ISO-8601 text.
C10_RowsAreNormalised ==
  \A i \in 1..Len(reads) : Normalised(sheets[reads[i].sheet], reads[i].data)

\* C10 witness: a sheet of two data rows with a date in one of them was read.
C10_Witness ==
  \E i \in 1..Len(reads) :
    /\ Len(reads[i].data) = 2
    /\ \E c \in 1..Len(sheets[reads[i].sheet].values[2]) :
         sheets[reads[i].sheet].values[2][c][1] = "Date"

====
